---- MODULE Spec2Model ----
(***************************************************************************)
(* Model of rusty_server: the worker pool of src/threadpool.rs, the request *)
(* framer and parser of src/request.rs, the path resolver and response      *)
(* builder of src/response.rs and handle_connection of src/server.rs.       *)
(*                                                                         *)
(* SpecPool   : ThreadPool::new, ThreadPool::execute, the worker loop of   *)
(*              Worker::new and Drop for ThreadPool, interleaved.          *)
(* SpecFramer : one call of read_request against a peer that sends a       *)
(*              byte stream split arbitrarily into reads.                  *)
(* SpecParser : parse_request applied to every short text.                 *)
(* SpecResolver : generate_path and detect_mime_type applied to request    *)
(*              paths with any number of leading slashes, under any root.  *)
(* SpecResponse : one call of handle_response over every small file system *)
(*              and a stream whose writes and flush may fail.              *)
(* SpecConn     : one call of handle_connection, from the first read of    *)
(*              the request to the return of the handler.                  *)
(* SpecServer   : the accept loop of start_server with several clients     *)
(*              connected at the same time.                                *)
(***************************************************************************)
EXTENDS Integers, Sequences, FiniteSets, TLC

(* ------------------------------ bounds --------------------------------- *)
\* largest size handed to ThreadPool::new
MaxSize == 2
\* number of calls of ThreadPool::execute explored
MaxJobs == 3
\* longest byte stream a peer sends
MaxWire == 5
\* longest text handed to parse_request
MaxText == 6
\* most leading '/' characters put in front of a request path
MaxSlashes == 3
\* number of clients that connect to the server
MaxClients == 5

(* -------------------------- program constants -------------------------- *)
\* let mut temp = [0; 512];
TempSize == 512
\* b"\r\n\r\n"
Terminator == <<13, 10, 13, 10>>
\* U+FFFD REPLACEMENT CHARACTER, what from_utf8_lossy puts for invalid bytes
ReplacementChar == 65533

(* ------------------------------ alphabets ------------------------------ *)
\* what a submitted closure does when a worker calls it
JobKinds == {"returns", "panics", "loops"}
\* bytes a peer may send: CR, LF, 'A' and 0xFF (never valid in UTF-8)
WireBytes == {13, 10, 65, 255}
\* error kinds a read on the socket may report
IoFaults == {"ConnectionReset", "Interrupted"}

\* characters of the texts handed to parse_request: 'G', '/', ' ', CR, LF
TextChars == {71, 47, 32, 13, 10}

\* error kinds a write or a flush on the stream may report
WriteFaults == {"BrokenPipe", "ConnectionReset"}
\* contents of the files of the model (0xFF: not valid UTF-8)
Contents == {<<>>, <<255, 13, 10, 0>>}

NoWorker == -1
NoJob == 0

VARIABLES
    \* ---- src/threadpool.rs
    poolState,      \* "unbuilt" | "alive" | "newPanicked"
    size,           \* argument of ThreadPool::new
    sender,         \* ThreadPool.sender : "Some" | "None"
    queue,          \* messages buffered in the mpsc channel
    lockHolder,     \* worker holding the Mutex around the receiver
    wpc,            \* position of each worker thread in its loop
    message,        \* job a worker has received (NoJob if none)
    thread,         \* Worker.thread : "Some" | "None" (the JoinHandle)
    kind,           \* what each submitted closure does
    calls,          \* number of calls of execute so far
    lastExecute,    \* how the last call of execute ended
    sent,           \* jobs that execute put in the channel
    runs,           \* how many times each job has been called
    done,           \* jobs whose closure has returned
    counter,        \* the shared counter every returning job increments
    dropPc,         \* "none" | "joining" | "returned" | "panicked"
    joinIdx,        \* index of the worker drop is joining
    claimedAtDrop,  \* jobs held by a worker when drop began
    backlogAtDrop,  \* jobs waiting in the channel when drop began
    \* ---- src/request.rs, read_request
    wire,           \* the bytes the peer sends, in order
    rpos,           \* bytes of wire already delivered by read
    prevPos,        \* rpos before the last read
    buffer,         \* the local Vec<u8> buffer
    reads,          \* number of calls of stream.read
    lastRead,       \* outcome of the last read: "none", "data", "eof" or a fault
    result,         \* what read_request returned
    \* ---- src/request.rs, parse_request
    request_str,    \* the text handed to parse_request
    parsed,         \* what parse_request returned
    \* ---- src/response.rs, handle_response
    root,           \* the root argument
    cwd,            \* the working directory of the process
    files,          \* the file system: what fs::read finds at each path
    request,        \* the HttpRequest argument
    path,           \* let path = generate_path(request, root)
    content_type,   \* let content_type = detect_mime_type(&path)
    hrPc,           \* position in handle_response
    status_line,    \* the status line chosen by the match on fs::read
    body,           \* the body chosen by the match on fs::read
    stream,         \* what the stream has accepted, one entry per write
    ops,            \* the operations attempted on the stream, in order
    hrResult,       \* what handle_response returned
    \* src/server.rs : handle_connection
    hcPc,           \* position in handle_connection
    hcResult,       \* what handle_connection returned
    sock,           \* the TcpStream of the connection: none, open or closed
    \* src/server.rs : start_server
    srvPc,          \* position of the listener thread in its loop
    connected,      \* number of clients that have connected so far
    accepted,       \* number of connections listener.incoming() has yielded
    clientWire,     \* clientWire[c]: the bytes client c sends
    log             \* the last event start_server logged

poolVars == <<poolState, size, sender, queue, lockHolder, wpc, message, thread,
              kind, calls, lastExecute, sent, runs, done, counter, dropPc,
              joinIdx, claimedAtDrop, backlogAtDrop>>
framerVars == <<wire, rpos, prevPos, buffer, reads, lastRead, result>>
parserVars == <<request_str, parsed>>
responseVars == <<root, cwd, files, request, path, content_type, hrPc,
                  status_line, body, stream, ops, hrResult>>
connVars == <<hcPc, hcResult, sock>>
serverVars == <<srvPc, connected, accepted, clientWire, log>>
vars == <<poolVars, framerVars, parserVars, responseVars, connVars, serverVars>>

\* what each component leaves alone
poolFrame == <<framerVars, parserVars, responseVars, connVars, serverVars>>
framerFrame == <<poolVars, parserVars, responseVars, connVars, serverVars>>
parserFrame == <<poolVars, framerVars, responseVars, connVars, serverVars>>
responseFrame == <<poolVars, framerVars, parserVars, connVars, serverVars>>

Min(a, b) == IF a < b THEN a ELSE b
Range(s) == {s[i] : i \in 1..Len(s)}

(***************************************************************************)
(*                         src/threadpool.rs                               *)
(***************************************************************************)
Workers == DOMAIN wpc
Jobs == 1..MaxJobs

\* a worker thread that has left its closure, by break or by unwinding
Terminated(w) == wpc[w] \in {"exited", "panicked"}

\* The Receiver lives in an Arc whose only clones are owned by the worker
\* closures: it is dropped when the last worker thread has terminated.
ReceiverAlive == \E w \in Workers : ~Terminated(w)

PoolInit ==
    /\ poolState = "unbuilt"
    /\ size = 0
    /\ sender = "None"
    /\ queue = <<>>
    /\ lockHolder = NoWorker
    /\ wpc = <<>>
    /\ message = <<>>
    /\ thread = <<>>
    /\ kind = [j \in Jobs |-> "unset"]
    /\ calls = 0
    /\ lastExecute = "none"
    /\ sent = {}
    /\ runs = [j \in Jobs |-> 0]
    /\ done = {}
    /\ counter = 0
    /\ dropPc = "none"
    /\ joinIdx = 0
    /\ claimedAtDrop = {}
    /\ backlogAtDrop = {}

\* assert!(size > 0) with the condition weakened
SizeOkMut(sz) == sz >= 0
\* assert!(size > 0)
SizeOk(sz) == sz > 0

\* ThreadPool::new(size)
ThreadPoolNew(sz) ==
    /\ poolState = "unbuilt"
    /\ size' = sz
    /\ IF SizeOk(sz)
       THEN /\ poolState' = "alive"
            /\ sender' = "Some"
            /\ wpc' = [id \in 0..(sz - 1) |-> "lock"]
            /\ message' = [id \in 0..(sz - 1) |-> NoJob]
            /\ thread' = [id \in 0..(sz - 1) |-> "Some"]
       ELSE /\ poolState' = "newPanicked"
            /\ UNCHANGED <<sender, wpc, message, thread>>
    /\ UNCHANGED <<queue, lockHolder, kind, calls, lastExecute, sent, runs,
                   done, counter, dropPc, joinIdx, claimedAtDrop, backlogAtDrop>>

\* execute written as self.sender.as_ref().unwrap().send(..).unwrap()
ExecuteOutcomeMut(s, alive) ==
    IF s = "Some" /\ alive THEN "sent" ELSE "panicked"
\* if let Some(sender) = &self.sender { sender.send(Box::new(f)).unwrap(); }
\* send fails exactly when the receiver has been dropped.
ExecuteOutcome(s, alive) ==
    IF s = "Some"
    THEN IF alive THEN "sent" ELSE "panicked"
    ELSE "dropped"

\* ThreadPool::execute(f), f a closure of kind k
Execute(k) ==
    /\ poolState = "alive"
    /\ calls < MaxJobs
    /\ calls' = calls + 1
    /\ kind' = [kind EXCEPT ![calls + 1] = k]
    /\ lastExecute' = ExecuteOutcome(sender, ReceiverAlive)
    /\ IF lastExecute' = "sent"
       THEN /\ queue' = Append(queue, calls + 1)
            /\ sent' = sent \cup {calls + 1}
       ELSE UNCHANGED <<queue, sent>>
    /\ UNCHANGED <<poolState, size, sender, lockHolder, wpc, message, thread,
                   runs, done, counter, dropPc, joinIdx, claimedAtDrop,
                   backlogAtDrop>>

\* receiver.lock(): the worker blocks until the mutex is free
WorkerLock(w) ==
    /\ wpc[w] = "lock"
    /\ lockHolder = NoWorker
    /\ lockHolder' = w
    /\ wpc' = [wpc EXCEPT ![w] = "recv"]
    /\ UNCHANGED <<poolState, size, sender, queue, message, thread, kind,
                   calls, lastExecute, sent, runs, done, counter, dropPc,
                   joinIdx, claimedAtDrop, backlogAtDrop>>

\* a recv that takes the head and loses the message behind it
RecvRestMut(q) == IF Len(q) >= 2 THEN Tail(Tail(q)) ELSE Tail(q)
\* what recv leaves in the channel: everything but the head
RecvRest(q) == Tail(q)

\* a recv that takes the newest message instead of the oldest
WorkerRecvNewestMut(w) ==
    /\ wpc[w] = "recv"
    /\ queue # <<>>
    /\ message' = [message EXCEPT ![w] = queue[Len(queue)]]
    /\ queue' = SubSeq(queue, 1, Len(queue) - 1)
    /\ lockHolder' = NoWorker
    /\ wpc' = [wpc EXCEPT ![w] = "claimed"]
    /\ UNCHANGED <<poolState, size, sender, thread, kind, calls, lastExecute,
                   sent, runs, done, counter, dropPc, joinIdx, claimedAtDrop,
                   backlogAtDrop>>

\* match receiver.lock().unwrap().recv() { .. }: the MutexGuard temporary
\* lives to the end of the match, so the job runs with the lock held
WorkerRecvKeepsLockMut(w) ==
    /\ wpc[w] = "recv"
    /\ queue # <<>>
    /\ message' = [message EXCEPT ![w] = Head(queue)]
    /\ queue' = RecvRest(queue)
    /\ wpc' = [wpc EXCEPT ![w] = "claimed"]
    /\ UNCHANGED <<poolState, size, sender, lockHolder, thread, kind, calls,
                   lastExecute, sent, runs, done, counter, dropPc, joinIdx,
                   claimedAtDrop, backlogAtDrop>>

\* .recv() returns Ok(job); the MutexGuard temporary is dropped at the end
\* of the let statement, before the match.
WorkerRecvJob(w) ==
    /\ wpc[w] = "recv"
    /\ queue # <<>>
    /\ message' = [message EXCEPT ![w] = Head(queue)]
    /\ queue' = RecvRest(queue)
    /\ lockHolder' = NoWorker
    /\ wpc' = [wpc EXCEPT ![w] = "claimed"]
    /\ UNCHANGED <<poolState, size, sender, thread, kind, calls, lastExecute,
                   sent, runs, done, counter, dropPc, joinIdx, claimedAtDrop,
                   backlogAtDrop>>

\* a recv that reports a closed channel while messages are still buffered
DisconnectedMut(s, q) == s = "None"
\* recv returns Err only when every sender is gone and the buffer is empty
Disconnected(s, q) == s = "None" /\ q = <<>>

\* .recv() returns Err(_) => break
WorkerRecvClosed(w) ==
    /\ wpc[w] = "recv"
    /\ Disconnected(sender, queue)
    /\ lockHolder' = NoWorker
    /\ wpc' = [wpc EXCEPT ![w] = "exited"]
    /\ UNCHANGED <<poolState, size, sender, queue, message, thread, kind,
                   calls, lastExecute, sent, runs, done, counter, dropPc,
                   joinIdx, claimedAtDrop, backlogAtDrop>>

\* Ok(job) => { thread::spawn(job); }: the closure is started on a thread
\* of its own and the worker goes round without waiting for it
WorkerRunJobMut(w) ==
    /\ wpc[w] = "claimed"
    /\ wpc' = [wpc EXCEPT ![w] = "lock"]
    /\ runs' = [runs EXCEPT ![message[w]] = @ + 1]
    /\ UNCHANGED <<poolState, size, sender, queue, lockHolder, message, thread,
                   kind, calls, lastExecute, sent, done, counter, dropPc,
                   joinIdx, claimedAtDrop, backlogAtDrop>>

\* Ok(job) => job(): the closure is entered
WorkerRunJob(w) ==
    /\ wpc[w] = "claimed"
    /\ wpc' = [wpc EXCEPT ![w] = "run"]
    /\ runs' = [runs EXCEPT ![message[w]] = @ + 1]
    /\ UNCHANGED <<poolState, size, sender, queue, lockHolder, message, thread,
                   kind, calls, lastExecute, sent, done, counter, dropPc,
                   joinIdx, claimedAtDrop, backlogAtDrop>>

\* the closure returns; the loop goes round to receiver.lock()
JobReturns(w) ==
    /\ wpc[w] = "run"
    /\ kind[message[w]] = "returns"
    /\ counter' = counter + 1
    /\ done' = done \cup {message[w]}
    /\ message' = [message EXCEPT ![w] = NoJob]
    /\ wpc' = [wpc EXCEPT ![w] = "lock"]
    /\ UNCHANGED <<poolState, size, sender, queue, lockHolder, thread, kind,
                   calls, lastExecute, sent, runs, dropPc, joinIdx,
                   claimedAtDrop, backlogAtDrop>>

\* the closure panics: nothing in the loop catches the unwinding, so the
\* worker thread terminates.  (A closure of kind "loops" never leaves "run".)
JobPanics(w) ==
    /\ wpc[w] = "run"
    /\ kind[message[w]] = "panics"
    /\ message' = [message EXCEPT ![w] = NoJob]
    /\ wpc' = [wpc EXCEPT ![w] = "panicked"]
    /\ UNCHANGED <<poolState, size, sender, queue, lockHolder, thread, kind,
                   calls, lastExecute, sent, runs, done, counter, dropPc,
                   joinIdx, claimedAtDrop, backlogAtDrop>>

\* drop, first statement: self.sender.take()
DropBegin ==
    /\ poolState = "alive"
    /\ dropPc = "none"
    /\ sender' = "None"
    /\ dropPc' = "joining"
    /\ joinIdx' = 0
    /\ claimedAtDrop' = {message[w] : w \in {v \in Workers : wpc[v] \in {"claimed", "run"}}}
    /\ backlogAtDrop' = Range(queue)
    /\ UNCHANGED <<poolState, size, queue, lockHolder, wpc, message, thread,
                   kind, calls, lastExecute, sent, runs, done, counter>>

\* a join that does not wait for the thread
ThreadFinishedMut(w) == TRUE
\* thread.join() returns once the thread has terminated
ThreadFinished(w) == Terminated(w)

\* drop, one iteration of the loop over the workers:
\* if let Some(thread) = worker.thread.take() { thread.join().unwrap(); }
DropJoin ==
    /\ dropPc = "joining"
    /\ joinIdx < size
    /\ IF thread[joinIdx] = "Some"
       THEN /\ ThreadFinished(joinIdx)
            /\ thread' = [thread EXCEPT ![joinIdx] = "None"]
            /\ IF wpc[joinIdx] = "panicked"
               THEN /\ dropPc' = "panicked"
                    /\ UNCHANGED joinIdx
               ELSE /\ joinIdx' = joinIdx + 1
                    /\ UNCHANGED dropPc
       ELSE /\ joinIdx' = joinIdx + 1
            /\ UNCHANGED <<thread, dropPc>>
    /\ UNCHANGED <<poolState, size, sender, queue, lockHolder, wpc, message,
                   kind, calls, lastExecute, sent, runs, done, counter,
                   claimedAtDrop, backlogAtDrop>>

\* drop, the loop is over: drop returns
DropReturn ==
    /\ dropPc = "joining"
    /\ joinIdx = size
    /\ dropPc' = "returned"
    /\ UNCHANGED <<poolState, size, sender, queue, lockHolder, wpc, message,
                   thread, kind, calls, lastExecute, sent, runs, done, counter,
                   joinIdx, claimedAtDrop, backlogAtDrop>>

(***************************************************************************)
(*                    src/request.rs : read_request                        *)
(***************************************************************************)
Pending == [tag |-> "Pending", text |-> <<>>, kind |-> "none"]
Ok(t) == [tag |-> "Ok", text |-> t, kind |-> "none"]
Err(k) == [tag |-> "Err", text |-> <<>>, kind |-> k]

\* the framer before read_request is called on a connection
FramerIdle ==
    /\ rpos = 0
    /\ prevPos = 0
    /\ buffer = <<>>
    /\ reads = 0
    /\ lastRead = "none"
    /\ result = Pending

\* all byte streams of at most MaxWire bytes
Wires == UNION {[1..n -> WireBytes] : n \in 0..MaxWire}

\* the check against the last four bytes only (buffer.ends_with)
HeadersEndMut(buf) ==
    Len(buf) >= 4 /\ SubSeq(buf, Len(buf) - 3, Len(buf)) = Terminator
\* buffer.windows(4).any(|w| w == b"\r\n\r\n")
HeadersEnd(buf) ==
    \E i \in 1..(Len(buf) - 3) : SubSeq(buf, i, i + 3) = Terminator

\* String::from_utf8_lossy(&buffer).to_string(), as a sequence of code
\* points.  Over WireBytes: a byte below 0x80 is the character itself; 0xFF
\* can neither start nor continue a UTF-8 sequence, so each one is replaced
\* by U+FFFD.
\* a decoding that drops the bytes that are not valid UTF-8
FromUtf8LossyMut(b) == SelectSeq(b, LAMBDA x : x < 128)
RECURSIVE FromUtf8Lossy(_)
FromUtf8Lossy(b) ==
    IF b = <<>> THEN <<>>
    ELSE IF Head(b) < 128
         THEN <<Head(b)>> \o FromUtf8Lossy(Tail(b))
         ELSE <<ReplacementChar>> \o FromUtf8Lossy(Tail(b))

\* a zero-length read taken for the end of the headers
OnZeroMut(buf) == Ok(FromUtf8Lossy(buf))
\* if n == 0 { return Err(io::Error::new(io::ErrorKind::UnexpectedEof, ..)) }
OnZero(buf) == Err("UnexpectedEof")

\* the fault wrapped in a new error
OnFaultMut(e) == Err("Other")
\* let n = stream.read(&mut temp)?;  the error is returned as it is
OnFault(e) == Err(e)

\* stream.read returns n > 0 bytes, then extend_from_slice and the check
ReadData(n) ==
    /\ result.tag = "Pending"
    /\ n \in 1..Min(TempSize, Len(wire) - rpos)
    /\ prevPos' = rpos
    /\ rpos' = rpos + n
    /\ reads' = reads + 1
    /\ lastRead' = "data"
    /\ LET buf == buffer \o SubSeq(wire, rpos + 1, rpos + n)
       IN IF HeadersEnd(buf)
          THEN /\ result' = Ok(FromUtf8Lossy(buf))
               /\ buffer' = <<>>
          ELSE /\ buffer' = buf
               /\ UNCHANGED result
    /\ UNCHANGED wire

\* stream.read returns 0: the peer has closed and every byte was delivered
ReadZero ==
    /\ result.tag = "Pending"
    /\ rpos = Len(wire)
    /\ prevPos' = rpos
    /\ reads' = reads + 1
    /\ lastRead' = "eof"
    /\ result' = OnZero(buffer)
    /\ buffer' = IF result'.tag = "Pending" THEN buffer ELSE <<>>
    /\ UNCHANGED <<wire, rpos>>

\* stream.read returns Err(e)
ReadFault(e) ==
    /\ result.tag = "Pending"
    /\ prevPos' = rpos
    /\ reads' = reads + 1
    /\ lastRead' = e
    /\ result' = OnFault(e)
    /\ buffer' = <<>>
    /\ UNCHANGED <<wire, rpos>>

(***************************************************************************)
(*                    src/request.rs : parse_request                       *)
(***************************************************************************)
ParsePending == [tag |-> "Pending", method |-> <<>>, path |-> <<>>, kind |-> "none"]
\* Ok(HttpRequest { method, path })
ParseOk(m, p) == [tag |-> "Ok", method |-> m, path |-> p, kind |-> "none"]
\* Err(std::io::Error::new(kind, ..))
ParseErr(k) == [tag |-> "Err", method |-> <<>>, path |-> <<>>, kind |-> k]

\* parse_request before it is called
ParserIdle ==
    /\ request_str = <<>>
    /\ parsed = ParsePending

\* char::is_whitespace: the Unicode White_Space code points
IsWhitespace(c) ==
    \/ c \in {9, 10, 11, 12, 13, 32, 133, 160, 5760, 8232, 8233, 8239, 8287, 12288}
    \/ c \in 8192..8202

\* index of the first '\n' of s, Len(s) + 1 if there is none
RECURSIVE FirstNewline(_, _)
FirstNewline(s, i) ==
    IF i > Len(s) THEN Len(s) + 1
    ELSE IF s[i] = 10 THEN i
    ELSE FirstNewline(s, i + 1)

\* the whole text taken for the first line
FirstLineMut(s) == s
\* request_str.lines().next(), for a non-empty s: the text before the first
\* '\n', without the '\r' that precedes that '\n' if there is one
FirstLine(s) ==
    LET nl == FirstNewline(s, 1)
        line == SubSeq(s, 1, nl - 1)
    IN IF nl <= Len(s) /\ line # <<>> /\ line[Len(line)] = 13
       THEN SubSeq(line, 1, Len(line) - 1)
       ELSE line

\* the tokens of line from position i on, cur being the token in progress
RECURSIVE Tokens(_, _, _)
Tokens(line, i, cur) ==
    IF i > Len(line)
    THEN IF cur = <<>> THEN <<>> ELSE <<cur>>
    ELSE IF IsWhitespace(line[i])
         THEN IF cur = <<>> THEN Tokens(line, i + 1, <<>>)
              ELSE <<cur>> \o Tokens(line, i + 1, <<>>)
         ELSE Tokens(line, i + 1, Append(cur, line[i]))

\* split in place of split_whitespace: an empty first field when the line
\* begins with whitespace
SplitWhitespaceMut(line) ==
    IF line # <<>> /\ IsWhitespace(line[1])
    THEN <<<<>>>> \o Tokens(line, 1, <<>>)
    ELSE Tokens(line, 1, <<>>)
\* line.split_whitespace().collect(): the maximal runs of non-whitespace
SplitWhitespace(line) == Tokens(line, 1, <<>>)

\* parse_request(request_str)
ParseRequest(s) ==
    IF s = <<>>
    THEN ParseErr("InvalidData")
    ELSE LET parts == SplitWhitespace(FirstLine(s))
         IN IF Len(parts) >= 2
            THEN ParseOk(parts[1], parts[2])
            ELSE ParseErr("InvalidData")

\* all texts of at most MaxText characters
Texts == UNION {[1..n -> TextChars] : n \in 0..MaxText}

\* one call of parse_request
Parse ==
    /\ parsed.tag = "Pending"
    /\ parsed' = ParseRequest(request_str)
    /\ UNCHANGED request_str

(***************************************************************************)
(*          src/response.rs : generate_path, detect_mime_type              *)
(***************************************************************************)
Lower == <<"a", "b", "c", "d", "e", "f", "g", "h", "i", "j", "k", "l", "m",
           "n", "o", "p", "q", "r", "s", "t", "u", "v", "w", "x", "y", "z">>
Upper == <<"A", "B", "C", "D", "E", "F", "G", "H", "I", "J", "K", "L", "M",
           "N", "O", "P", "Q", "R", "S", "T", "U", "V", "W", "X", "Y", "Z">>
Digit == <<"0", "1", "2", "3", "4", "5", "6", "7", "8", "9">>

\* the code of a character of a string literal of the source
Chr(c) ==
    IF \E i \in 1..26 : Lower[i] = c THEN 96 + (CHOOSE i \in 1..26 : Lower[i] = c)
    ELSE IF \E i \in 1..26 : Upper[i] = c THEN 64 + (CHOOSE i \in 1..26 : Upper[i] = c)
    ELSE IF \E i \in 1..10 : Digit[i] = c THEN 47 + (CHOOSE i \in 1..10 : Digit[i] = c)
    ELSE CASE c = "/" -> 47
           [] c = "." -> 46
           [] c = " " -> 32
           [] c = "<" -> 60
           [] c = ">" -> 62

\* a string literal as the sequence of its character codes
Str(cs) == [i \in 1..Len(cs) |-> Chr(cs[i])]

Slash == Chr("/")
Dot == Chr(".")

\* handle_response before it is called
\* the clients of the server
Clients == 1..MaxClients

\* start_server has not been called
ServerIdle ==
    /\ srvPc = "idle"
    /\ connected = 0
    /\ accepted = 0
    /\ clientWire = [c \in Clients |-> <<>>]
    /\ log = "none"

\* no connection is being handled
ConnIdle == hcPc = "idle" /\ hcResult = "none" /\ sock = "none"

ResponseIdle ==
    /\ path = <<>>
    /\ content_type = "none"
    /\ status_line = "none"
    /\ body = <<>>
    /\ stream = <<>>
    /\ ops = <<>>
    /\ hrResult = "none"

\* Path::is_absolute on unix
IsAbsolute(p) == p # <<>> /\ p[1] = Slash

\* PathBuf::push(rel) on unix: an absolute rel replaces the path; otherwise a
\* separator is added unless the path is empty or ends with one, then rel
Push(base, rel) ==
    IF IsAbsolute(rel) THEN rel
    ELSE IF base # <<>> /\ base[Len(base)] # Slash
         THEN base \o <<Slash>> \o rel
         ELSE base \o rel

\* the request path pushed as it is, no '/' removed
TrimStartNothingMut(p) == p
\* strip_prefix('/'): at most one leading '/' removed
TrimStartSlashesMut(p) == IF p # <<>> /\ p[1] = Slash THEN Tail(p) ELSE p
\* other.trim_start_matches('/')
RECURSIVE TrimStartSlashes(_)
TrimStartSlashes(p) ==
    IF p # <<>> /\ p[1] = Slash THEN TrimStartSlashes(Tail(p)) ELSE p

\* only "/" served as the index page
IndexAliasesMut == {Str(<<"/">>)}
\* "/" | "/index" => "index.html"
IndexAliases == {Str(<<"/">>), Str(<<"/", "i", "n", "d", "e", "x">>)}

\* generate_path(request, root)
GeneratePath(req, rt) ==
    LET relative == IF req.path \in IndexAliases
                    THEN Str(<<"i", "n", "d", "e", "x", ".", "h", "t", "m", "l">>)
                    ELSE TrimStartSlashes(req.path)
    IN Push(rt, relative)

\* the pieces of p between '/' characters, from position i on
RECURSIVE SplitSlash(_, _, _)
SplitSlash(p, i, cur) ==
    IF i > Len(p) THEN <<cur>>
    ELSE IF p[i] = Slash THEN <<cur>> \o SplitSlash(p, i + 1, <<>>)
    ELSE SplitSlash(p, i + 1, Append(cur, p[i]))

\* Path::components without the root: empty pieces and "." are skipped
Components(p) ==
    SelectSeq(SplitSlash(p, 1, <<>>), LAMBDA c : c # <<>> /\ c # <<Dot>>)

\* Option::None for a file name or an extension (no character has code -1)
NoName == <<-1>>
\* Path::file_name: the last component unless it is ".."
FileName(p) ==
    LET cs == Components(p)
    IN IF cs = <<>> \/ cs[Len(cs)] = <<Dot, Dot>> THEN NoName ELSE cs[Len(cs)]

\* Path::extension: what follows the last '.' of the file name, None when
\* there is no file name, no '.', or no '.' but the leading one
Extension(p) ==
    LET name == FileName(p)
    IN IF name = NoName \/ ~(\E i \in 1..Len(name) : name[i] = Dot)
       THEN NoName
       ELSE LET last == CHOOSE i \in 1..Len(name) :
                            name[i] = Dot /\ \A j \in (i + 1)..Len(name) : name[j] # Dot
            IN IF last = 1 THEN NoName ELSE SubSeq(name, last + 1, Len(name))

\* the table without its jpeg entry
MimeOfMut(ext) ==
    CASE ext = Str(<<"h", "t", "m", "l">>) -> "text/html"
      [] ext = Str(<<"c", "s", "s">>) -> "text/css"
      [] ext = Str(<<"j", "s">>) -> "application/javascript"
      [] ext = Str(<<"p", "n", "g">>) -> "image/png"
      [] ext = Str(<<"j", "p", "g">>) -> "image/jpeg"
      [] ext = Str(<<"g", "i", "f">>) -> "image/gif"
      [] OTHER -> "application/octet-stream"
\* the match of detect_mime_type
MimeOf(ext) ==
    CASE ext = Str(<<"h", "t", "m", "l">>) -> "text/html"
      [] ext = Str(<<"c", "s", "s">>) -> "text/css"
      [] ext = Str(<<"j", "s">>) -> "application/javascript"
      [] ext = Str(<<"p", "n", "g">>) -> "image/png"
      [] ext = Str(<<"j", "p", "g">>) -> "image/jpeg"
      [] ext = Str(<<"j", "p", "e", "g">>) -> "image/jpeg"
      [] ext = Str(<<"g", "i", "f">>) -> "image/gif"
      [] OTHER -> "application/octet-stream"

\* detect_mime_type(path)
DetectMimeType(p) == MimeOf(Extension(p))

\* k '/' characters
Slashes(k) == [i \in 1..k |-> Slash]

\* request paths without their leading slashes
PathBodies ==
    {Str(<<>>),
     Str(<<"i", "n", "d", "e", "x">>),
     Str(<<"i", "n", "d", "e", "x", ".", "h", "t", "m", "l">>),
     Str(<<"a", "/", "b", ".", "p", "n", "g">>),
     Str(<<"x", ".", "c", "s", "s">>),
     Str(<<"x", ".", "j", "s">>),
     Str(<<"x", ".", "j", "p", "g">>),
     Str(<<"x", ".", "j", "p", "e", "g">>),
     Str(<<"x", ".", "g", "i", "f">>),
     Str(<<"x", ".", "H", "T", "M", "L">>),
     Str(<<"x", ".", "P", "N", "G">>),
     Str(<<"x", ".", "t", "x", "t">>),
     Str(<<"x">>),
     Str(<<"x", ".">>),
     Str(<<".", "h", "t", "m", "l">>),
     Str(<<".", ".">>),
     Str(<<".", ".", "/", "x", ".", "p", "n", "g">>),
     Str(<<"d", ".", "p", "n", "g", "/">>)}

ReqPaths == {Slashes(k) \o b : k \in 0..MaxSlashes, b \in PathBodies}

Roots ==
    {Str(<<>>),
     Str(<<"s", "t", "a", "t", "i", "c">>),
     Str(<<"/", "s", "r", "v", "/", "w", "w", "w">>),
     Str(<<"/", "s", "r", "v", "/", "w", "w", "w", "/">>)}

Get == Str(<<"G", "E", "T">>)

\* handle_response, lines 12 to 15: the path and the content type
Resolve ==
    /\ hrPc = "called"
    /\ path' = GeneratePath(request, root)
    /\ content_type' = DetectMimeType(path')
    /\ hrPc' = "read"
    /\ UNCHANGED <<root, cwd, files, request, status_line, body, stream, ops,
                   hrResult>>

(***************************************************************************)
(*              src/response.rs : handle_response, handle_404              *)
(***************************************************************************)
\* what fs::read can find at a path
FileStates ==
    [st : {"file"}, bytes : Contents]
        \cup [st : {"missing", "denied", "dir"}, bytes : {<<>>}]

\* a relative path is resolved against the working directory
Absolute(p) == IF IsAbsolute(p) THEN p ELSE Push(cwd, p)

\* the file a path names: its components from the root of the file system
FileKey(p) == Components(Absolute(p))

\* fs::read(p): the bytes of a regular file, an error for everything else (a
\* missing file, a directory, no permission, a file named as a directory)
FsRead(p) ==
    LET f == files[FileKey(p)]
    IN IF f.st = "file" /\ p # <<>> /\ p[Len(p)] # Slash
       THEN [ok |-> TRUE, bytes |-> f.bytes]
       ELSE [ok |-> FALSE, bytes |-> <<>>]

\* let path_str = "static/404.html";
Path404 == Str(<<"s", "t", "a", "t", "i", "c", "/", "4", "0", "4", ".", "h", "t", "m", "l">>)
\* b"<h1>404 Not Found</h1>"
Fixed404 ==
    Str(<<"<", "h", "1", ">", "4", "0", "4", " ", "N", "o", "t", " ",
          "F", "o", "u", "n", "d", "<", "/", "h", "1", ">">>)

\* an empty body when the 404 file cannot be read
Handle404Mut == IF FsRead(Path404).ok THEN FsRead(Path404).bytes ELSE <<>>
\* handle_404()
Handle404 == IF FsRead(Path404).ok THEN FsRead(Path404).bytes ELSE Fixed404

\* the length of the body once decoded as text and encoded again
ContentLengthMut(b) == Len(b) + 2 * Cardinality({i \in 1..Len(b) : b[i] = 255})
\* body.len()
ContentLength(b) == Len(b)

\* format!("{status_line}\r\nContent-Type: {content_type}\r\n
\*          Content-Length: {}\r\n\r\n", body.len()), line by line
FormatHeader(sl, ct, b) ==
    <<sl, <<"Content-Type", ct>>, <<"Content-Length", ContentLength(b)>>, "">>

\* handle_response, lines 18 to 21: the match on fs::read(&path)
ReadFile ==
    /\ hrPc = "read"
    /\ IF FsRead(path).ok
       THEN /\ status_line' = "HTTP/1.1 200 OK"
            /\ body' = FsRead(path).bytes
       ELSE /\ status_line' = "HTTP/1.1 404 NOT FOUND"
            /\ body' = Handle404
    /\ hrPc' = "header"
    /\ UNCHANGED <<root, cwd, files, request, path, content_type, stream, ops,
                   hrResult>>

\* the result of a stream operation ignored: let _ = ...
AfterOpMut(res, next) == next
\* the ? after a stream operation: on an error the function returns it
AfterOp(res, next) == IF res = "ok" THEN next ELSE "returned"

\* one operation on the stream, with result res; a failed write may have
\* put part of its data on the stream before failing
StreamOp(here, next, op, data, res, partial) ==
    /\ hrPc = here
    /\ ops' = Append(ops, [op |-> op, res |-> res])
    /\ stream' = IF op = "flush" THEN stream
                 ELSE IF res = "ok"
                 THEN Append(stream, [part |-> op, data |-> data, complete |-> TRUE])
                 ELSE IF partial
                 THEN Append(stream, [part |-> op, data |-> data, complete |-> FALSE])
                 ELSE stream
    /\ hrPc' = AfterOp(res, next)
    /\ hrResult' = IF hrPc' = "returned"
                   THEN (IF res = "ok" THEN "Ok" ELSE res)
                   ELSE hrResult
    /\ UNCHANGED <<root, cwd, files, request, path, content_type, status_line,
                   body>>

\* stream.write_all(header.as_bytes())?
WriteHeader(res, partial) ==
    StreamOp("header", "body", "header",
             FormatHeader(status_line, content_type, body), res, partial)

\* stream.write_all(&body)?
WriteBody(res, partial) ==
    StreamOp("body", "flush", "body", body, res, partial)

\* stream.flush()?; Ok(())
Flush(res) ==
    StreamOp("flush", "returned", "flush", <<>>, res, FALSE)

\* roots, working directories and request paths of the calls explored
RespRoots ==
    {Str(<<"s", "t", "a", "t", "i", "c">>),
     Str(<<"/", "s", "r", "v", "/", "w", "w", "w">>)}
Cwds == {Str(<<"/", "a", "p", "p">>), Str(<<"/", "t", "m", "p">>)}
RespPaths ==
    {Str(<<"/">>),
     Str(<<"/", "i", "n", "d", "e", "x">>),
     Str(<<"/", "/", "a", "/", "b", ".", "p", "n", "g">>),
     Str(<<"/", "x", ".", "c", "s", "s">>),
     Str(<<"/", "x">>),
     Str(<<"x", ".", "j", "p", "e", "g">>),
     Str(<<"/", "/">>)}

\* the files a call can look at: the resolved one, the 404 file of
\* handle_404 and the 404.html of the root
FilesOfInterest(rt, wd, req) ==
    LET abs(p) == IF IsAbsolute(p) THEN p ELSE Push(wd, p)
    IN {Components(abs(GeneratePath(req, rt))),
        Components(abs(Path404)),
        Components(abs(Push(rt, Str(<<"4", "0", "4", ".", "h", "t", "m", "l">>))))}

(***************************************************************************)
(*                    src/server.rs : handle_connection                    *)
(***************************************************************************)
\* the handler borrows the stream (stream: &mut TcpStream) and its caller
\* keeps it
OwnedStreamAtReturnMut == "open"
\* handle_connection(mut stream: TcpStream) owns the stream: wherever the
\* function returns the stream is dropped, which closes the connection
OwnedStreamAtReturn == "closed"

\* the request read is served whatever read_request returned
AfterReadMut(res) == "parsing"
\* the ? of line 33: an error of read_request is returned at once
AfterRead(res) == IF res.tag = "Ok" THEN "parsing" ELSE "returned"

\* let request_str = read_request(&mut stream)?;
HcRead ==
    /\ hcPc = "reading"
    /\ result.tag # "Pending"
    /\ hcPc' = AfterRead(result)
    /\ IF hcPc' = "parsing"
       THEN /\ request_str' = result.text
            /\ UNCHANGED <<hcResult, sock>>
       ELSE /\ hcResult' = result.kind
            /\ sock' = OwnedStreamAtReturn
            /\ UNCHANGED request_str
    /\ UNCHANGED <<poolVars, framerVars, parsed, responseVars, serverVars>>

\* a request is served whatever parse_request returned
AfterParseMut(p) == "responding"
\* the ? of line 36: an error of parse_request is returned at once
AfterParse(p) == IF p.tag = "Ok" THEN "responding" ELSE "returned"

\* let request = parse_request(&request_str)?; and the call of line 39
HcParsed ==
    /\ hcPc = "parsing"
    /\ parsed.tag # "Pending"
    /\ hcPc' = AfterParse(parsed)
    /\ IF hcPc' = "responding"
       THEN /\ request' = [method |-> parsed.method, path |-> parsed.path]
            /\ hrPc' = "called"
            /\ UNCHANGED <<hcResult, sock>>
       ELSE /\ hcResult' = parsed.kind
            /\ sock' = OwnedStreamAtReturn
            /\ UNCHANGED <<request, hrPc>>
    /\ UNCHANGED <<poolVars, framerVars, parserVars, root, cwd, files, path,
                   content_type, status_line, body, stream, ops, hrResult,
                   serverVars>>

\* handle_response(&mut stream, &request)?; Ok(())
HcReturn ==
    /\ hcPc = "responding"
    /\ hrPc = "returned"
    /\ hcPc' = "returned"
    /\ hcResult' = hrResult
    /\ sock' = OwnedStreamAtReturn
    /\ UNCHANGED <<poolVars, framerVars, parserVars, responseVars, serverVars>>

\* what clients send: requests for two files, request lines without a path
\* or empty, and requests cut before the end of the headers
ConnPaths == {Str(<<"/">>), Str(<<"/", "x">>)}
ConnWires ==
    {Get \o <<32>> \o p \o Terminator : p \in ConnPaths}
        \cup {Get \o Terminator, Terminator, <<13, 10>> \o Terminator,
              Get \o <<32>> \o Str(<<"/", "x">>) \o <<13, 10>>, <<>>}

\* the file systems of the connections explored
ConnFileStates ==
    {[st |-> "file", bytes |-> <<255, 13, 10, 0>>], [st |-> "missing", bytes |-> <<>>]}
ConnFiles(rt, wd) ==
    UNION {FilesOfInterest(rt, wd, [method |-> Get, path |-> p]) : p \in ConnPaths}

(***************************************************************************)
(*                      src/server.rs : start_server                       *)
(***************************************************************************)
\* what clients of the server send: requests for two files, a request line
\* without a path, and a request cut before the end of the headers
ServerWires ==
    {Get \o <<32>> \o p \o Terminator : p \in ConnPaths}
        \cup {Get \o Terminator,
              Get \o <<32>> \o Str(<<"/", "x">>) \o <<13, 10>>}

\* the file systems of the server: every file of interest holds the same
\* bytes, or none of them exists
ServerFiles(rt, wd) ==
    {[k \in ConnFiles(rt, wd) |-> f] : f \in ConnFileStates}

\* a client connects; its connection waits in the listen queue
ClientConnect(w) ==
    /\ srvPc # "idle"
    /\ connected < MaxClients
    /\ connected' = connected + 1
    /\ clientWire' = [clientWire EXCEPT ![connected + 1] = w]
    /\ UNCHANGED <<poolVars, framerVars, parserVars, responseVars, connVars,
                   srvPc, accepted, log>>

\* the handler is given the bytes of the newest connection
ConnectionBytesMut(c) == clientWire[connected]
\* the stream listener.incoming() yields carries the bytes of its own client
ConnectionBytes(c) == clientWire[c]

\* stream.peer_addr().unwrap() of line 18: the address, or a panic of the
\* listener thread when the peer has already reset the connection
PeerAddrUnwrap(peer) == IF peer = "ok" THEN "handling" ELSE "panicked"

\* lines 15 to 19, Ok(stream): the next connection of the listen queue is
\* accepted, logged and handed to handle_connection by the loop itself
Accept(peer) ==
    /\ srvPc = "accept"
    /\ accepted < connected
    /\ accepted' = accepted + 1
    /\ srvPc' = PeerAddrUnwrap(peer)
    /\ IF srvPc' = "handling"
       THEN /\ log' = "New connection"
            /\ wire' = ConnectionBytes(accepted + 1)
            /\ hcPc' = "reading"
            /\ sock' = "open"
       ELSE /\ sock' = "closed"
            /\ UNCHANGED <<log, wire, hcPc>>
    /\ UNCHANGED <<poolVars, rpos, prevPos, buffer, reads, lastRead, result,
                   parserVars, responseVars, hcResult, connected, clientWire>>

\* lines 23 to 25, Err(e): the error is logged and the loop goes on
AcceptError ==
    /\ srvPc = "accept"
    /\ log' = "Error accepting connection"
    /\ UNCHANGED <<poolVars, framerVars, parserVars, responseVars, connVars,
                   srvPc, connected, accepted, clientWire>>

\* an error of the handler is passed on by start_server
AfterHandlerMut(res) == IF res = "Ok" THEN "accept" ELSE "stopped"
\* if let Err(e) = handle_connection(stream) { error!(..) }: the loop goes
\* on whatever the handler returned
AfterHandler(res) == "accept"

\* lines 19 to 21: handle_connection has returned; its stream is dropped,
\* which closes the connection, and the loop takes the next one
HandlerReturned ==
    /\ srvPc = "handling"
    /\ hcPc = "returned"
    /\ srvPc' = AfterHandler(hcResult)
    /\ log' = IF hcResult = "Ok" THEN log ELSE "Error handling connection"
    /\ clientWire' = [clientWire EXCEPT ![accepted] = <<>>]
    /\ wire' = <<>>
    /\ rpos' = 0
    /\ prevPos' = 0
    /\ buffer' = <<>>
    /\ reads' = 0
    /\ lastRead' = "none"
    /\ result' = Pending
    /\ request_str' = <<>>
    /\ parsed' = ParsePending
    /\ request' = [method |-> <<>>, path |-> <<>>]
    /\ hrPc' = "idle"
    /\ path' = <<>>
    /\ content_type' = "none"
    /\ status_line' = "none"
    /\ body' = <<>>
    /\ stream' = <<>>
    /\ ops' = <<>>
    /\ hrResult' = "none"
    /\ hcPc' = "idle"
    /\ hcResult' = "none"
    /\ sock' = "none"
    /\ UNCHANGED <<poolVars, root, cwd, files, connected, accepted>>

(***************************************************************************)
(*                           specifications                                *)
(***************************************************************************)
InitPool ==
    /\ PoolInit
    /\ wire = <<>>
    /\ FramerIdle
    /\ ParserIdle
    /\ root = <<>>
    /\ cwd = <<>>
    /\ files = <<>>
    /\ request = [method |-> <<>>, path |-> <<>>]
    /\ hrPc = "idle"
    /\ ResponseIdle
    /\ ConnIdle
    /\ ServerIdle

NextPool ==
    \/ \E sz \in 0..MaxSize : ThreadPoolNew(sz) /\ UNCHANGED poolFrame
    \/ \E k \in JobKinds : Execute(k) /\ UNCHANGED poolFrame
    \/ \E w \in Workers : WorkerLock(w) /\ UNCHANGED poolFrame
    \/ \E w \in Workers : WorkerRecvJob(w) /\ UNCHANGED poolFrame
    \/ \E w \in Workers : WorkerRecvClosed(w) /\ UNCHANGED poolFrame
    \/ \E w \in Workers : WorkerRunJob(w) /\ UNCHANGED poolFrame
    \/ \E w \in Workers : JobReturns(w) /\ UNCHANGED poolFrame
    \/ \E w \in Workers : JobPanics(w) /\ UNCHANGED poolFrame
    \/ DropBegin /\ UNCHANGED poolFrame
    \/ DropJoin /\ UNCHANGED poolFrame
    \/ DropReturn /\ UNCHANGED poolFrame

SpecPool == InitPool /\ [][NextPool]_vars

InitFramer ==
    /\ PoolInit
    /\ wire \in Wires
    /\ FramerIdle
    /\ ParserIdle
    /\ root = <<>>
    /\ cwd = <<>>
    /\ files = <<>>
    /\ request = [method |-> <<>>, path |-> <<>>]
    /\ hrPc = "idle"
    /\ ResponseIdle
    /\ ConnIdle
    /\ ServerIdle

NextFramer ==
    \/ \E n \in 1..MaxWire : ReadData(n) /\ UNCHANGED framerFrame
    \/ ReadZero /\ UNCHANGED framerFrame
    \/ \E e \in IoFaults : ReadFault(e) /\ UNCHANGED framerFrame

SpecFramer == InitFramer /\ [][NextFramer]_vars

InitParser ==
    /\ PoolInit
    /\ wire = <<>>
    /\ FramerIdle
    /\ request_str \in Texts
    /\ parsed = ParsePending
    /\ root = <<>>
    /\ cwd = <<>>
    /\ files = <<>>
    /\ request = [method |-> <<>>, path |-> <<>>]
    /\ hrPc = "idle"
    /\ ResponseIdle
    /\ ConnIdle
    /\ ServerIdle

NextParser ==
    \/ Parse /\ UNCHANGED parserFrame

SpecParser == InitParser /\ [][NextParser]_vars

InitResolver ==
    /\ PoolInit
    /\ wire = <<>>
    /\ FramerIdle
    /\ ParserIdle
    /\ root \in Roots
    /\ cwd = <<>>
    /\ files = <<>>
    /\ request \in [method : {Get}, path : ReqPaths]
    /\ hrPc = "called"
    /\ ResponseIdle
    /\ ConnIdle
    /\ ServerIdle

NextResolver ==
    \/ Resolve /\ UNCHANGED responseFrame

SpecResolver == InitResolver /\ [][NextResolver]_vars

InitResponse ==
    /\ PoolInit
    /\ wire = <<>>
    /\ FramerIdle
    /\ ParserIdle
    /\ root \in RespRoots
    /\ cwd \in Cwds
    /\ request \in [method : {Get}, path : RespPaths]
    /\ files \in [FilesOfInterest(root, cwd, request) -> FileStates]
    /\ hrPc = "called"
    /\ ResponseIdle
    /\ ConnIdle
    /\ ServerIdle

NextResponse ==
    \/ Resolve /\ UNCHANGED responseFrame
    \/ ReadFile /\ UNCHANGED responseFrame
    \/ \E res \in {"ok"} \cup WriteFaults, partial \in BOOLEAN :
          WriteHeader(res, partial) /\ UNCHANGED responseFrame
    \/ \E res \in {"ok"} \cup WriteFaults, partial \in BOOLEAN :
          WriteBody(res, partial) /\ UNCHANGED responseFrame
    \/ \E res \in {"ok"} \cup WriteFaults :
          Flush(res) /\ UNCHANGED responseFrame

SpecResponse == InitResponse /\ [][NextResponse]_vars

InitConn ==
    /\ PoolInit
    /\ wire \in ConnWires
    /\ FramerIdle
    /\ ParserIdle
    /\ root \in RespRoots
    /\ cwd = Str(<<"/", "a", "p", "p">>)
    /\ files \in [ConnFiles(root, cwd) -> ConnFileStates]
    /\ request = [method |-> <<>>, path |-> <<>>]
    /\ hrPc = "idle"
    /\ ResponseIdle
    /\ hcPc = "reading"
    /\ hcResult = "none"
    /\ sock = "open"
    /\ ServerIdle

NextConn ==
    \/ \E n \in 1..MaxWire :
          hcPc = "reading" /\ ReadData(n) /\ UNCHANGED framerFrame
    \/ hcPc = "reading" /\ ReadZero /\ UNCHANGED framerFrame
    \/ \E e \in IoFaults :
          hcPc = "reading" /\ ReadFault(e) /\ UNCHANGED framerFrame
    \/ HcRead
    \/ hcPc = "parsing" /\ Parse /\ UNCHANGED parserFrame
    \/ HcParsed
    \/ Resolve /\ UNCHANGED responseFrame
    \/ ReadFile /\ UNCHANGED responseFrame
    \/ \E res \in {"ok"} \cup WriteFaults, partial \in BOOLEAN :
          WriteHeader(res, partial) /\ UNCHANGED responseFrame
    \/ \E res \in {"ok"} \cup WriteFaults, partial \in BOOLEAN :
          WriteBody(res, partial) /\ UNCHANGED responseFrame
    \/ \E res \in {"ok"} \cup WriteFaults :
          Flush(res) /\ UNCHANGED responseFrame
    \/ HcReturn

SpecConn == InitConn /\ [][NextConn]_vars

InitServer ==
    /\ PoolInit
    /\ wire = <<>>
    /\ FramerIdle
    /\ ParserIdle
    /\ root = Str(<<"s", "t", "a", "t", "i", "c">>)
    /\ cwd = Str(<<"/", "a", "p", "p">>)
    /\ files \in ServerFiles(root, cwd)
    /\ request = [method |-> <<>>, path |-> <<>>]
    /\ hrPc = "idle"
    /\ ResponseIdle
    /\ ConnIdle
    /\ srvPc = "accept"
    /\ connected = 0
    /\ accepted = 0
    /\ clientWire = [c \in Clients |-> <<>>]
    /\ log = "Listening"

NextServer ==
    \/ \E w \in ServerWires : ClientConnect(w)
    \/ \E peer \in {"ok", "err"} : Accept(peer)
    \/ AcceptError
    \/ \E n \in {MaxWire, Len(wire) - rpos} :
          hcPc = "reading" /\ ReadData(n) /\ UNCHANGED framerFrame
    \/ hcPc = "reading" /\ ReadZero /\ UNCHANGED framerFrame
    \/ \E e \in IoFaults :
          hcPc = "reading" /\ ReadFault(e) /\ UNCHANGED framerFrame
    \/ HcRead
    \/ hcPc = "parsing" /\ Parse /\ UNCHANGED parserFrame
    \/ HcParsed
    \/ Resolve /\ UNCHANGED responseFrame
    \/ ReadFile /\ UNCHANGED responseFrame
    \/ \E res \in {"ok"} \cup WriteFaults, partial \in BOOLEAN :
          WriteHeader(res, partial) /\ UNCHANGED responseFrame
    \/ \E res \in {"ok"} \cup WriteFaults, partial \in BOOLEAN :
          WriteBody(res, partial) /\ UNCHANGED responseFrame
    \/ \E res \in {"ok"} \cup WriteFaults :
          Flush(res) /\ UNCHANGED responseFrame
    \/ HcReturn
    \/ HandlerReturned

SpecServer == InitServer /\ [][NextServer]_vars

(***************************************************************************)
(*                        properties : worker pool                         *)
(***************************************************************************)
\* every worker is waiting for a job and nothing is buffered, pool alive
Quiescent ==
    /\ poolState = "alive"
    /\ sender = "Some"
    /\ queue = <<>>
    /\ \A w \in Workers : wpc[w] \in {"lock", "recv"}

\* C1: once N calls of execute have been made on a live pool and all workers
\* are idle with an empty queue, each of the N jobs has been run exactly once
\* and has returned, and the shared counter is exactly N.
C1_EachJobRunExactlyOnce ==
    Quiescent =>
        /\ \A j \in 1..calls : runs[j] = 1 /\ j \in done
        /\ counter = calls

\* C1 witness: a pool of two workers is idle again after several jobs
C1_Witness ==
    /\ Quiescent
    /\ size >= 2
    /\ calls >= 2

\* C2: when drop has returned every worker thread has left its loop, no
\* worker holds a job, and every job a worker held when drop began has
\* returned.
C2_DropJoinsEveryWorker ==
    dropPc = "returned" =>
        /\ \A w \in Workers : wpc[w] = "exited" /\ message[w] = NoJob
        /\ claimedAtDrop \subseteq done

\* C2 witness: drop has returned and a job was in a worker's hands when it began
C2_Witness ==
    /\ dropPc = "returned"
    /\ claimedAtDrop # {}

\* C3: when drop has returned every job execute enqueued has been run exactly
\* once and has returned, the jobs still waiting in the channel when the
\* sender was closed included, and the channel is empty.
C3_BacklogDrainedAtDrop ==
    dropPc = "returned" =>
        /\ \A j \in sent : runs[j] = 1 /\ j \in done
        /\ backlogAtDrop \subseteq done
        /\ queue = <<>>

\* C3 witness: drop has returned and jobs were waiting unclaimed when it began
C3_Witness ==
    /\ dropPc = "returned"
    /\ backlogAtDrop # {}
    /\ backlogAtDrop \subseteq sent

\* C4: a job that panics terminates neither its worker thread nor the pool:
\* no worker thread is ever ended by a panic, every worker of the pool stays
\* in its loop until the channel is closed, and drop joins every worker
\* without failing.
C4_PanicCaughtAtJobBoundary ==
    /\ \A w \in Workers : wpc[w] # "panicked"
    /\ dropPc = "none" => \A w \in Workers : ~Terminated(w)
    /\ dropPc # "panicked"

\* C5 (states): a pool exists only for a size of at least 1 and then has
\* exactly the workers 0..size-1; new(0) has panicked with no worker, no
\* thread handle and no open sender.
C5_PoolShape ==
    /\ poolState = "alive" =>
          /\ size >= 1
          /\ Workers = 0..(size - 1)
          /\ DOMAIN thread = 0..(size - 1)
          /\ Cardinality(Workers) = size
    /\ poolState = "newPanicked" =>
          /\ size = 0
          /\ Workers = {}
          /\ DOMAIN thread = {}
          /\ sender = "None"

\* C5 (step): the step that builds the pool leaves the sender open and every
\* worker with its own thread handle, at the top of its loop, the receiver
\* mutex free and the channel empty.
C5_PoolAsBuilt ==
    (poolState = "unbuilt" /\ poolState' = "alive") =>
        /\ sender' = "Some"
        /\ \A w \in DOMAIN wpc' : wpc'[w] = "lock" /\ thread'[w] = "Some"
        /\ lockHolder' = NoWorker
        /\ queue' = <<>>

\* C5: ThreadPool::new(size) with size >= 1 creates exactly size workers
\* (ids 0..size-1), each with its own thread looping on the shared receiver,
\* and an open sender; ThreadPool::new(0) panics before any worker is spawned.
C5_NewCreatesSizeWorkers == []C5_PoolShape /\ [][C5_PoolAsBuilt]_vars

\* C5 witness: a pool of at least two workers has been built
C5_Witness ==
    /\ poolState = "alive"
    /\ size >= 2
    /\ dropPc = "none"

\* C6: in every state where the pool is alive (its sender is open), a call of
\* execute puts the job at the back of the queue and returns, whatever the
\* workers are doing and however many jobs are queued.
C6_ExecuteAlwaysEnqueues ==
    [][(calls' = calls + 1 /\ sender = "Some") =>
          /\ lastExecute' = "sent"
          /\ queue' = Append(queue, calls')]_vars

\* C7: once the sender has been taken (sender = None), a call of execute
\* enqueues nothing and does not fail: the job is dropped and the queue is
\* unchanged.
C7_ExecuteAfterShutdownDrops ==
    [][(calls' = calls + 1 /\ sender = "None") =>
          /\ lastExecute' = "dropped"
          /\ queue' = queue
          /\ sent' = sent
          /\ runs' = runs]_vars

\* C7 witness: execute has been called after the sender was taken
C7_Witness ==
    /\ sender = "None"
    /\ dropPc # "none"
    /\ lastExecute = "dropped"

(***************************************************************************)
(*                          properties : framer                            *)
(***************************************************************************)
\* the bytes read_request has read so far
Received == SubSeq(wire, 1, rpos)

\* the 4-byte sequence \r\n\r\n occurs somewhere in s
ContainsTerminator(s) ==
    \E i \in 1..Len(s) :
        /\ i + 3 <= Len(s)
        /\ s[i] = 13 /\ s[i + 1] = 10 /\ s[i + 2] = 13 /\ s[i + 3] = 10

\* the UTF-8 encoding of a text over the code points of the model
RECURSIVE Utf8Bytes(_)
Utf8Bytes(t) ==
    IF t = <<>> THEN <<>>
    ELSE IF Head(t) = ReplacementChar
         THEN <<239, 191, 189>> \o Utf8Bytes(Tail(t))
         ELSE <<Head(t)>> \o Utf8Bytes(Tail(t))

\* read_request returns at the first read after which the accumulated bytes
\* contain the terminator, and not before
ReturnsAtFirstTerminator ==
    /\ result.tag = "Pending" => ~ContainsTerminator(Received)
    /\ result.tag = "Ok" =>
          /\ ContainsTerminator(Received)
          /\ ~ContainsTerminator(SubSeq(wire, 1, prevPos))

\* C8 as stated: read_request returns successfully as soon as \r\n\r\n occurs
\* in the bytes accumulated over all reads, however the stream is split into
\* reads, and the returned text contains every byte read up to that point.
C8_ReturnedTextHasEveryByte ==
    /\ ReturnsAtFirstTerminator
    /\ result.tag = "Ok" => Utf8Bytes(result.text) = Received

\* C8 amended: read_request returns successfully as soon as \r\n\r\n occurs
\* in the bytes accumulated over all reads, however the stream is split into
\* reads, and the returned text is the lossy UTF-8 decoding of every byte
\* read up to that point: one character per byte, the byte itself when it
\* is valid UTF-8 and U+FFFD in place of each invalid byte.
C8_ReturnsLossyTextAtTerminator ==
    /\ ReturnsAtFirstTerminator
    /\ result.tag = "Ok" =>
          /\ Len(result.text) = Len(Received)
          /\ \A i \in 1..Len(Received) :
                result.text[i] = IF Received[i] < 128 THEN Received[i]
                                 ELSE ReplacementChar

\* C8 witness: success where the boundary between the last two reads falls
\* inside the terminator, bytes follow the terminator in the last read, and
\* an invalid byte was received
C8_Witness ==
    /\ result.tag = "Ok"
    /\ reads >= 2
    /\ \E e \in 4..rpos :
          /\ SubSeq(wire, e - 3, e) = Terminator
          /\ prevPos \in (e - 3)..(e - 1)
    /\ \E i \in 1..rpos : wire[i] = 255

\* C9: a read that returns zero bytes before the terminator was seen makes
\* read_request fail with UnexpectedEof, whatever was received before, and
\* no request text is returned.
C9_EofBeforeTerminatorFails ==
    lastRead = "eof" =>
        /\ result = Err("UnexpectedEof")
        /\ result.text = <<>>
        /\ ~ContainsTerminator(Received)

\* C9 witness: the peer closed after a partial header block
C9_Witness ==
    /\ lastRead = "eof"
    /\ rpos >= 2
    /\ reads >= 2

\* C10 (states): after a read reported a fault, read_request has failed
\* with that same error and the accumulated bytes are gone.
C10_FaultReturned ==
    lastRead \in IoFaults =>
        /\ result = Err(lastRead)
        /\ buffer = <<>>

\* C10 (step): once read_request has failed no further read is performed.
C10_NoReadAfterFailure ==
    result.tag = "Err" => (reads' = reads /\ rpos' = rpos /\ result' = result)

\* C10: if a read reports an I/O fault, read_request fails immediately with
\* that same error, performs no further read and discards the bytes
\* accumulated so far.
C10_FaultFailsImmediately ==
    []C10_FaultReturned /\ [][C10_NoReadAfterFailure]_vars

\* C10 witness: a fault arrived after part of the header block was buffered
C10_Witness ==
    /\ lastRead \in IoFaults
    /\ rpos >= 2
    /\ reads >= 2

(***************************************************************************)
(*                          properties : parser                            *)
(***************************************************************************)
\* the characters that separate tokens in the texts of the model
Blank(c) == c \in {9, 10, 13, 32}

\* the first line of s ends just before position LineLimit(s) + 1
LineLimit(s) ==
    IF \E i \in 1..Len(s) : s[i] = 10
    THEN (CHOOSE i \in 1..Len(s) : s[i] = 10 /\ \A j \in 1..(i - 1) : s[j] # 10) - 1
    ELSE Len(s)

\* <<a, b>> such that s[a..b] is a maximal run of non-blank characters of
\* the first line of s
TokenSpans(s) ==
    LET lim == LineLimit(s)
    IN {sp \in (1..lim) \X (1..lim) :
          /\ sp[1] <= sp[2]
          /\ \A i \in sp[1]..sp[2] : ~Blank(s[i])
          /\ (sp[1] = 1 \/ Blank(s[sp[1] - 1]))
          /\ (sp[2] = lim \/ Blank(s[sp[2] + 1]))}

\* the span of a set of spans that starts first
FirstSpan(spans) == CHOOSE sp \in spans : \A o \in spans : sp[1] <= o[1]

\* C11: parse_request consults only the first line: it succeeds exactly when
\* that line has two or more whitespace-separated tokens and then returns
\* token 0 as method and token 1 as path, both verbatim; otherwise (empty
\* input, zero or one token on the first line, whatever later lines hold) it
\* fails with InvalidData.
C11_ParseFirstLineTokens ==
    parsed.tag # "Pending" =>
        LET spans == TokenSpans(request_str)
        IN IF Cardinality(spans) >= 2
           THEN LET t0 == FirstSpan(spans)
                    t1 == FirstSpan(spans \ {t0})
                IN parsed = ParseOk(SubSeq(request_str, t0[1], t0[2]),
                                    SubSeq(request_str, t1[1], t1[2]))
           ELSE parsed = ParseErr("InvalidData")

\* C11 witness: the first line has one token and a later line has two, and
\* parse_request has failed
C11_Witness ==
    /\ parsed.tag = "Err"
    /\ Cardinality(TokenSpans(request_str)) = 1
    /\ \E i \in 1..Len(request_str) :
          /\ request_str[i] = 10
          /\ Len(SplitWhitespace(SubSeq(request_str, i + 1, Len(request_str)))) >= 2

\* C12 as stated: every request parse_request produces has a path that is
\* non-empty and begins with '/'.
C12_PathBeginsWithSlash ==
    parsed.tag = "Ok" => (parsed.path # <<>> /\ parsed.path[1] = 47)

\* C12 amended: every request parse_request produces has a path (and a
\* method) that is non-empty and holds no whitespace; the path need not
\* begin with '/', no request line is rejected for its second token.
C12_PathNonEmptyToken ==
    parsed.tag = "Ok" =>
        /\ parsed.path # <<>>
        /\ parsed.method # <<>>
        /\ \A i \in 1..Len(parsed.path) : ~Blank(parsed.path[i])
        /\ \A i \in 1..Len(parsed.method) : ~Blank(parsed.method[i])

\* C12 witness: a request whose path does not begin with '/'
C12_Witness ==
    /\ parsed.tag = "Ok"
    /\ parsed.path # <<>>
    /\ parsed.path[1] # 47

(***************************************************************************)
(*                         properties : resolver                           *)
(***************************************************************************)
\* "/" and "/index"
RootPath == <<47>>
IndexPath == <<47, 105, 110, 100, 101, 120>>
\* "index.html"
IndexHtml == <<105, 110, 100, 101, 120, 46, 104, 116, 109, 108>>

\* the path rt/rel as generate_path writes it: rt, one '/' unless rt is
\* empty or ends with one, then rel
UnderRoot(rt, rel) ==
    IF rt = <<>> \/ rt[Len(rt)] = 47 THEN rt \o rel ELSE rt \o <<47>> \o rel

\* C13: for every root, the request paths "/" and "/index" are both mapped
\* to root/index.html.
C13_IndexAliasesResolveToIndexHtml ==
    (hrPc = "read" /\ request.path \in {RootPath, IndexPath}) =>
        path = UnderRoot(root, IndexHtml)

\* C13 witness: "/index" has been resolved under a non-empty root
C13_Witness ==
    /\ hrPc = "read"
    /\ request.path = IndexPath
    /\ root # <<>>

\* number of '/' characters at the start of p
LeadingSlashes(p) ==
    CHOOSE k \in 0..Len(p) :
        /\ \A i \in 1..k : p[i] = 47
        /\ (k = Len(p) \/ p[k + 1] # 47)

\* p without its leading '/' characters
Remainder(p) == SubSeq(p, LeadingSlashes(p) + 1, Len(p))

\* C14: a request path other than "/" and "/index" is mapped to root
\* followed by the path without any of its leading '/', so every other such
\* path made of one or more '/' and the same remainder is mapped to the same
\* filesystem path.
C14_LeadingSlashesStripped ==
    (hrPc = "read" /\ request.path \notin {RootPath, IndexPath}) =>
        /\ path = UnderRoot(root, Remainder(request.path))
        /\ LeadingSlashes(request.path) >= 1 =>
              \A k \in 1..(MaxSlashes + 1) :
                  LET q == [i \in 1..k |-> 47] \o Remainder(request.path)
                  IN q \notin {RootPath, IndexPath} =>
                        GeneratePath([request EXCEPT !.path = q], root) = path

\* C14 witness: a path with three leading '/' and a remainder with a
\* directory has been resolved
C14_Witness ==
    /\ hrPc = "read"
    /\ LeadingSlashes(request.path) = 3
    /\ \E i \in 1..Len(Remainder(request.path)) : Remainder(request.path)[i] = 47
    /\ root # <<>>

\* p ends with the characters of suf, with a file-name character before them
HasSuffix(p, suf) ==
    /\ Len(p) > Len(suf)
    /\ SubSeq(p, Len(p) - Len(suf) + 1, Len(p)) = suf
    /\ p[Len(p) - Len(suf)] \notin {46, 47}

\* the fixed table of content types, by extension
MimeTable ==
    {<< <<104, 116, 109, 108>>, "text/html" >>,
     << <<99, 115, 115>>, "text/css" >>,
     << <<106, 115>>, "application/javascript" >>,
     << <<112, 110, 103>>, "image/png" >>,
     << <<106, 112, 103>>, "image/jpeg" >>,
     << <<106, 112, 101, 103>>, "image/jpeg" >>,
     << <<103, 105, 102>>, "image/gif" >>}

\* C15: detect_mime_type gives every path a content type: the one of the
\* table when the extension of the path is html, css, js, png, jpg, jpeg or
\* gif, and application/octet-stream for every other extension (HTML and
\* PNG included) and for no extension.
C15_MimeTypeByExtension ==
    hrPc = "read" =>
        /\ \A e \in MimeTable :
              /\ Extension(path) = e[1] => content_type = e[2]
              /\ HasSuffix(path, <<46>> \o e[1]) => content_type = e[2]
        /\ (\A e \in MimeTable : Extension(path) # e[1]) =>
              content_type = "application/octet-stream"

\* C15 witness: a path with the extension HTML has been typed
C15_Witness ==
    /\ hrPc = "read"
    /\ HasSuffix(path, <<46, 72, 84, 77, 76>>)
    /\ content_type = "application/octet-stream"

(***************************************************************************)
(*                 properties of the response builder                      *)
(***************************************************************************)
\* the file the request is resolved to: index.html for "/" and "/index", the
\* request path without its leading '/' otherwise, under the root
Resolved ==
    UnderRoot(root, IF request.path \in {RootPath, IndexPath}
                    THEN IndexHtml
                    ELSE Remainder(request.path))

\* what the file system holds at path p
OnDisk(p) ==
    files[Components(IF p # <<>> /\ p[1] = 47 THEN p ELSE UnderRoot(cwd, p))]

\* reading p gives the bytes of a file
Readable(p) == OnDisk(p).st = "file" /\ p # <<>> /\ p[Len(p)] # 47

\* the header block of a response
HeaderBlock(sl, ct, n) ==
    [part |-> "header",
     data |-> <<sl, <<"Content-Type", ct>>, <<"Content-Length", n>>, "">>,
     complete |-> TRUE]

\* C16: for every request whose resolved file can be read, handle_response
\* writes the status line HTTP/1.1 200 OK, a Content-Type header equal to
\* detect_mime_type of the resolved path, a Content-Length header equal to
\* the number of bytes of the file and a blank line, and then the bytes of
\* the file unmodified.
C16_ReadableFileServedWith200 ==
    Readable(Resolved) =>
        /\ (stream # <<>> /\ stream[1].complete) =>
              stream[1] = HeaderBlock("HTTP/1.1 200 OK", DetectMimeType(Resolved),
                                      Len(OnDisk(Resolved).bytes))
        /\ (Len(stream) = 2 /\ stream[2].complete) =>
              stream[2] = [part |-> "body", data |-> OnDisk(Resolved).bytes,
                           complete |-> TRUE]
        /\ hrResult = "Ok" =>
              /\ Len(stream) = 2
              /\ stream[1].complete
              /\ stream[2].complete

\* C16 witness: a PNG file holding a byte that is not UTF-8 has been served
C16_Witness ==
    /\ Readable(Resolved)
    /\ hrResult = "Ok"
    /\ content_type = "image/png"
    /\ \E i \in 1..Len(body) : body[i] = 255

\* "static/404.html", the file handle_404 reads
NotFoundPage == <<115, 116, 97, 116, 105, 99, 47, 52, 48, 52, 46, 104, 116, 109, 108>>
\* "<h1>404 Not Found</h1>"
NotFoundText ==
    <<60, 104, 49, 62, 52, 48, 52, 32, 78, 111, 116, 32, 70, 111, 117, 110,
      100, 60, 47, 104, 49, 62>>

\* the body of a 404 response
NotFoundBody ==
    IF Readable(NotFoundPage) THEN OnDisk(NotFoundPage).bytes ELSE NotFoundText

Root404 == UnderRoot(root, <<52, 48, 52, 46, 104, 116, 109, 108>>)

\* C18: for every root that holds a readable 404.html, a request for a file
\* that cannot be read gets the contents of that 404.html as its body,
\* whatever the working directory and whatever static/404.html holds
\* outside the root.
C18_NotFoundBodyFromRoot ==
    (/\ ~Readable(Resolved)
     /\ Readable(Root404)
     /\ hrPc \in {"header", "body", "flush", "returned"}) =>
        body = OnDisk(Root404).bytes

\* the stream operations of handle_response, in order
OpOrder == <<"header", "body", "flush">>

\* C20: handle_response writes the header block and the body as two
\* separate writes, in that order, and has flushed when it returns success;
\* no operation is attempted after one that failed, and the first failure
\* is the error the function returns.
C20_WritesInOrderStopAtFirstFailure ==
    /\ Len(ops) <= 3
    /\ \A i \in 1..Len(ops) : ops[i].op = OpOrder[i]
    /\ \A i \in 1..(Len(ops) - 1) : ops[i].res = "ok"
    /\ hrPc = "returned" =>
          IF hrResult = "Ok"
          THEN /\ Len(ops) = 3
               /\ \A i \in 1..3 : ops[i].res = "ok"
               /\ Len(stream) = 2
               /\ stream[1].part = "header" /\ stream[1].complete
               /\ stream[2].part = "body" /\ stream[2].complete
          ELSE /\ ops # <<>>
               /\ ops[Len(ops)].res # "ok"
               /\ hrResult = ops[Len(ops)].res

\* C20 witness: the header was written, the body write failed and the
\* function returned that failure without flushing
C20_Witness ==
    /\ hrPc = "returned"
    /\ Len(ops) = 2
    /\ ops[1].res = "ok"
    /\ ops[2].res = "BrokenPipe"
    /\ hrResult = "BrokenPipe"

(***************************************************************************)
(*                  properties of handle_connection                        *)
(***************************************************************************)
\* C19: in handle_connection, when read_request fails (end of stream or
\* I/O fault) or parse_request fails (malformed request line), nothing is
\* written to the connection, not even part of a response, handle_response
\* is not invoked, and the error is what the handler returns.
C19_NoResponseAfterReadOrParseFailure ==
    (result.tag = "Err" \/ parsed.tag = "Err") =>
        /\ stream = <<>>
        /\ ops = <<>>
        /\ hrPc = "idle"
        /\ hcPc \in {"reading", "parsing", "returned"}
        /\ hcPc = "returned" =>
              hcResult = (IF result.tag = "Err" THEN result.kind ELSE parsed.kind)

\* C19 witness: the request was read to its terminator, its first line had
\* no path, and the handler returned the parse error
C19_Witness ==
    /\ hcPc = "returned"
    /\ result.tag = "Ok"
    /\ parsed.tag = "Err"
    /\ hcResult = "InvalidData"
    /\ stream = <<>>

(***************************************************************************)
(*                     properties of start_server                          *)
(***************************************************************************)
\* C21: a failure while handling one connection (end of stream or I/O
\* fault in the framer, malformed request, write failure) or while
\* accepting one never stops the server: after it the listener thread is
\* still in its loop, accepting or handling a connection.
C21_FailureNeverStopsServer ==
    srvPc \in {"accept", "handling"}

\* w is a well-formed request for one of the paths clients ask for
ValidWire(w) == \E p \in ConnPaths : w = Get \o <<32>> \o p \o Terminator

\* the path a well-formed request asks for
WirePath(w) == CHOOSE p \in ConnPaths : w = Get \o <<32>> \o p \o Terminator

\* the file a well-formed request is resolved to
WireFile(w) ==
    UnderRoot(root, IF WirePath(w) \in {RootPath, IndexPath}
                    THEN IndexHtml
                    ELSE Remainder(WirePath(w)))

\* the content type of the table for path p
TypeOf(p) ==
    IF \E e \in MimeTable : HasSuffix(p, <<46>> \o e[1])
    THEN (CHOOSE e \in MimeTable : HasSuffix(p, <<46>> \o e[1]))[2]
    ELSE "application/octet-stream"

\* part i of the response on the stream is part i of the response to the
\* request w: the header block of its own file, then the bytes of that file
\* or of the 404 body
OwnPart(i, w) ==
    IF Readable(WireFile(w))
    THEN stream[i] =
            IF i = 1
            THEN HeaderBlock("HTTP/1.1 200 OK", TypeOf(WireFile(w)),
                             Len(OnDisk(WireFile(w)).bytes))
            ELSE [part |-> "body", data |-> OnDisk(WireFile(w)).bytes,
                  complete |-> TRUE]
    ELSE IF i = 1
         THEN /\ stream[1].part = "header"
              /\ stream[1].data[1] = "HTTP/1.1 404 NOT FOUND"
              /\ stream[1].data[3] = <<"Content-Length", Len(NotFoundBody)>>
         ELSE stream[2] = [part |-> "body", data |-> NotFoundBody,
                           complete |-> TRUE]

C23_ListenerHandsConnectionsToPool ==
    /\ hcPc \in {"reading", "parsing", "responding", "returned"} =>
          srvPc = "accept"
    /\ srvPc = "accept" => calls = accepted

(***************************************************************************)
(*                 further properties of the worker pool                   *)
(***************************************************************************)
\* the jobs that have been taken from the queue and have neither returned
\* nor panicked
InFlight ==
    {j \in sent : /\ j \notin Range(queue)
                  /\ j \notin done
                  /\ ~(kind[j] = "panics" /\ runs[j] >= 1)}

\* C24: in every reachable state each worker is running at most one job, so
\* the jobs in execution are never more than the size of the pool, and a
\* worker claims a job only when it holds none, the previous one having
\* returned.
C24_OneJobPerWorker ==
    /\ [](/\ Cardinality(InFlight) <= size
          /\ \A j \in InFlight :
                \E w \in Workers :
                    /\ message[w] = j
                    /\ wpc[w] \in {"claimed", "run"}
                    /\ \A v \in Workers : message[v] = j => v = w)
    /\ [][\A w \in DOMAIN wpc :
            (wpc[w] # "claimed" /\ wpc'[w] = "claimed") => message[w] = NoJob
         ]_vars

\* C24 witness: both workers of a pool of two are running a job while a
\* third job waits in the queue
C24_Witness ==
    /\ size = 2
    /\ \A w \in Workers : wpc[w] = "run"
    /\ queue # <<>>

\* C25: jobs are claimed in the order they were submitted: when a job has
\* been taken from the queue, every job submitted before it has been taken
\* too, and the jobs still queued are in submission order.
C25_ClaimedInSubmissionOrder ==
    /\ \A a \in sent, b \in sent :
          (a < b /\ b \notin Range(queue)) => a \notin Range(queue)
    /\ \A i \in 1..Len(queue), k \in 1..Len(queue) :
          i < k => queue[i] < queue[k]

\* C25 witness: in a pool of two, the job submitted second has returned
\* while the job submitted first is still running
C25_Witness ==
    /\ size = 2
    /\ 2 \in done
    /\ 1 \notin done
    /\ \E w \in Workers : wpc[w] = "run" /\ message[w] = 1

\* C26: no worker holds the lock of the receiver while it holds or runs a
\* job; the lock is held only by a worker waiting in recv, so a job that
\* runs for ever leaves the lock to the other workers.
C26_LockReleasedBeforeJobRuns ==
    /\ \A w \in Workers : wpc[w] \in {"claimed", "run"} => lockHolder # w
    /\ lockHolder # NoWorker => wpc[lockHolder] = "recv"

\* C26 witness: one worker runs a job that never returns and another
\* worker has claimed the job submitted after it
C26_Witness ==
    \E w \in Workers, v \in Workers :
        /\ w # v
        /\ wpc[w] = "run"
        /\ kind[message[w]] = "loops"
        /\ wpc[v] \in {"claimed", "run"}
        /\ message[v] > message[w]

\* C27: drop closes the submission channel before it joins any worker, and
\* when every submitted job terminates drop ends by returning; while a
\* claimed job that never terminates is running drop has not returned.
C27_DropReturnsWhenJobsTerminate ==
    /\ dropPc \in {"joining", "returned", "panicked"} => sender = "None"
    /\ (\A j \in sent : kind[j] # "loops") => dropPc # "panicked"
    /\ (\E w \in Workers : wpc[w] = "run" /\ kind[message[w]] = "loops") =>
          dropPc # "returned"

(***************************************************************************)
(*             order of the stages of one connection                       *)
(***************************************************************************)
\* how far handle_connection has come
ConnStage ==
    CASE hcPc = "idle" -> 0
      [] hcPc = "reading" -> 1
      [] hcPc = "parsing" -> 2
      [] hcPc = "responding" -> 3
      [] hcPc = "returned" -> 4

\* how far handle_response has come
ResponseStage ==
    CASE hrPc = "idle" -> 0
      [] hrPc = "called" -> 1
      [] hrPc = "read" -> 2
      [] hrPc = "header" -> 3
      [] hrPc = "body" -> 4
      [] hrPc = "flush" -> 5
      [] hrPc = "returned" -> 6

\* parse_request has run only on the text read_request returned, and
\* handle_response only on the request parse_request returned; the path is
\* resolved before anything is written
StagesInOrder ==
    /\ parsed.tag # "Pending" =>
          /\ result.tag = "Ok"
          /\ request_str = result.text
    /\ hrPc # "idle" =>
          /\ parsed.tag = "Ok"
          /\ request = [method |-> parsed.method, path |-> parsed.path]
    /\ ops # <<>> =>
          /\ ResponseStage >= 3
          /\ path = UnderRoot(root, IF request.path \in {RootPath, IndexPath}
                                    THEN IndexHtml
                                    ELSE Remainder(request.path))

\* a stage that has returned is not run again: its result stays, and
\* neither the handler nor the response builder goes back
NoStageTwice ==
    /\ result.tag # "Pending" => (result' = result /\ reads' = reads)
    /\ parsed.tag # "Pending" => parsed' = parsed
    /\ ConnStage' >= ConnStage
    /\ ResponseStage' >= ResponseStage
    /\ Len(ops') >= Len(ops)

\* C28: within one connection the stages run in the order read_request,
\* parse_request, path resolution, response writing; parse_request starts
\* only after read_request has returned success, handle_response only after
\* parse_request has returned success, and no stage runs twice.
C28_StagesRunOnceInOrder ==
    []StagesInOrder /\ [][NoStageTwice]_vars

\* C28 witness: a request that arrived in two reads went through the four
\* stages and the handler returned success
C28_Witness ==
    /\ hcPc = "returned"
    /\ hcResult = "Ok"
    /\ reads >= 2
    /\ Len(ops) = 3

\* C29: on the 404 path the Content-Type does not depend on the requested
\* path: it is the one a 404 response to any other request path carries.
C29_NotFoundTypeIsFixed ==
    (status_line = "HTTP/1.1 404 NOT FOUND" /\ ResponseStage >= 3) =>
        \A q \in RespPaths :
            DetectMimeType(GeneratePath([request EXCEPT !.path = q], root))
                = content_type

\* the lossy UTF-8 decoding of bytes b over the bytes of the model: one
\* character per byte, U+FFFD for a byte that is not valid UTF-8
LossyOf(b) ==
    [i \in 1..Len(b) |-> IF b[i] < 128 THEN b[i] ELSE ReplacementChar]

\* s ends with \r\n\r\n
EndsWithTerminator(s) ==
    /\ Len(s) >= 4
    /\ s[Len(s) - 3] = 13 /\ s[Len(s) - 2] = 10
    /\ s[Len(s) - 1] = 13 /\ s[Len(s)] = 10

\* C30 as stated: the returned text is the concatenation of all chunks
\* read, byte for byte, with what followed the terminator in the last read.
C30_ReturnedTextIsChunksUnchanged ==
    result.tag = "Ok" =>
        /\ Len(result.text) = Len(Received)
        /\ \A i \in 1..Len(Received) : result.text[i] = Received[i]

\* what read_request returns: every chunk read, decoded and not cut
ReturnsAllChunksDecoded ==
    result.tag = "Ok" =>
        /\ result.text = LossyOf(Received)
        /\ (rpos = Len(wire) /\ EndsWithTerminator(wire)) =>
              EndsWithTerminator(result.text)

\* C30 amended: read_request performs no read once the accumulated buffer
\* contains \r\n\r\n, and it does not cut the data: the returned text is
\* the lossy UTF-8 decoding of the concatenation of all chunks read (U+FFFD
\* for each invalid byte), so it holds what followed the terminator in the
\* last read, and it ends with \r\n\r\n when the peer sent nothing after.
C30_NoReadAfterTerminatorNoTruncation ==
    /\ []ReturnsAllChunksDecoded
    /\ [][result.tag = "Ok" => (reads' = reads /\ rpos' = rpos)]_vars

\* C30 witness: the terminator and an invalid byte after it arrived in the
\* same read, and the text returned holds a character for that byte
C30_Witness ==
    /\ result.tag = "Ok"
    /\ rpos = 5
    /\ SubSeq(wire, 1, 4) = Terminator
    /\ wire[5] = 255
    /\ Len(result.text) = 5

(***************************************************************************)
(*                 the resolved path stays under the root                  *)
(***************************************************************************)
\* p begins with the components of rt: the text of rt, followed by nothing,
\* or by a '/' that ends rt or begins the rest
BeginsWithRoot(p, rt) ==
    /\ Len(p) >= Len(rt)
    /\ SubSeq(p, 1, Len(rt)) = rt
    /\ \/ rt = <<>>
       \/ rt[Len(rt)] = 47
       \/ Len(p) = Len(rt)
       \/ p[Len(rt) + 1] = 47

\* p is an absolute path
StartsAtFsRoot(p) == p # <<>> /\ p[1] = 47

\* the positions of p where a ".." segment begins
DotDotSegments(p) ==
    {i \in 1..(Len(p) - 1) :
        /\ p[i] = 46 /\ p[i + 1] = 46
        /\ (i = 1 \/ p[i - 1] = 47)
        /\ (i + 1 = Len(p) \/ p[i + 2] = 47)}

\* C31: for every request path and every root the path generate_path
\* returns has the root as its leading components and is absolute only when
\* the root is: the part appended never replaces the root; and the ".."
\* segments of the request path are all in the result, not normalized.
C31_ResolvedPathBeginsWithRoot ==
    hrPc = "read" =>
        /\ BeginsWithRoot(path, root)
        /\ StartsAtFsRoot(path) <=> StartsAtFsRoot(root)
        /\ Cardinality(DotDotSegments(path)) =
              Cardinality(DotDotSegments(root))
                  + Cardinality(DotDotSegments(request.path))

\* C31 witness: a request path with several leading '/' and a ".." segment
\* has been resolved under an absolute root
C31_Witness ==
    /\ hrPc = "read"
    /\ Len(request.path) >= 2
    /\ request.path[1] = 47 /\ request.path[2] = 47
    /\ DotDotSegments(request.path) # {}
    /\ StartsAtFsRoot(root)
    /\ DotDotSegments(path) # {}

(***************************************************************************)
(*                 the connection after the handler returns                *)
(***************************************************************************)
\* the connection is open while the handler runs and closed once it has
\* returned, whatever it returned
ClosedAtReturn ==
    /\ hcPc \in {"reading", "parsing", "responding"} => sock = "open"
    /\ hcPc = "returned" =>
          /\ sock = "closed"
          /\ hcResult # "none"

\* nothing is read from or written to a closed connection, and it stays
\* closed
NoUseAfterClose ==
    sock = "closed" =>
        /\ sock' = "closed"
        /\ reads' = reads /\ rpos' = rpos
        /\ stream' = stream /\ ops' = ops

\* C32: when handle_connection returns, with success, a framer failure, a
\* parser failure or a write failure, the connection is closed: the handler
\* owned the stream, and no later operation reads from or writes to it.
C32_ConnectionClosedAtReturn ==
    []ClosedAtReturn /\ [][NoUseAfterClose]_vars

\* C32 witness: the handler returned the failure of the body write and the
\* connection, with the header on it, is closed
C32_Witness ==
    /\ hcPc = "returned"
    /\ hcResult = "BrokenPipe"
    /\ Len(ops) = 2
    /\ stream # <<>>
    /\ sock = "closed"

====
